---- MODULE Spec2Model ----
(***************************************************************************)
(* A model of the tiny-ts type checkers (arith, basic, obj, rec-func, sub) *)
(* of kzmshx/learn-tiny-ts-typechecker.  The checkers are pure recursive   *)
(* functions; each becomes a RECURSIVE operator computed the way the       *)
(* TypeScript computes it, and a call of an exported function is one       *)
(* action whose inputs are drawn by Init from bounded sets.                *)
(***************************************************************************)
EXTENDS Integers, Sequences, FiniteSets, TLC

VARIABLES
    pc,      \* "ready" before the call, "done" after it returned or threw
    op,      \* the function that is called
    a,       \* first Type argument of isEqualType / isSubtypeOf / typeEq
    b,       \* second Type argument
    term,    \* the Term given to typecheck
    tyEnv,   \* the contents of the TypeEnv object given to typecheck, at the call
    envAfter, \* the contents of that same object when the call has ended
    result,  \* what the call returned, or the message it threw
    argv,    \* the command line of the CLI: its positionals and its --mode value
    proc     \* what the CLI process did: checker run, output, exit status

vars == <<pc, op, a, b, term, tyEnv, envAfter, result, argv, proc>>

----------------------------------------------------------------------------
(* Bounds of the model *)

\* longest params list of a Func type or func term, longest args list
MaxParams == 2
\* longest props list of an Object type or objectNew term
MaxProps == 2
\* longest flat statement list (seq2)
MaxStmts == 2

\* names of function parameters and variables
VarNames == {"x", "f"}
\* names of object properties
PropNames == {"a", "b"}

SeqsUpTo(S, n) == UNION {[1..k -> S] : k \in 0..n}

----------------------------------------------------------------------------
(* Types: part_000 lines 25-35 *)

BooleanT == [tag |-> "Boolean"]
NumberT == [tag |-> "Number"]
FuncT(params, retType) == [tag |-> "Func", params |-> params, retType |-> retType]
ObjectT(props) == [tag |-> "Object", props |-> props]
\* ParamType and PropType: { name, type }
NameType(name, type) == [name |-> name, type |-> type]

\* the JavaScript value `undefined` (a missing key, a find without a match)
Undefined == [tag |-> "undefined"]
\* a variable of the model that holds no value in the current call
Nil == [tag |-> "nil"]

\* Object.fromEntries(props.map((p) => [p.name, p.type]))[name]:
\* among entries of the same name the last one wins
FromEntries(props, name) ==
    LET idx == {i \in 1..Len(props) : props[i].name = name}
    IN  IF idx = {} THEN Undefined
        ELSE props[CHOOSE i \in idx : \A j \in idx : j <= i].type

\* props.find((p) => p.name === name): the first entry of that name
Find(props, name) ==
    LET idx == {i \in 1..Len(props) : props[i].name = name}
    IN  IF idx = {} THEN Undefined
        ELSE props[CHOOSE i \in idx : \A j \in idx : i <= j]

\* isEqualType without the comparison of the numbers of props
RECURSIVE isEqualTypeNoLength(_, _)
isEqualTypeNoLength(x, y) ==
    CASE y.tag \in {"Number", "Boolean"} -> x.tag = y.tag
      [] y.tag = "Func" ->
            /\ x.tag = "Func"
            /\ Len(x.params) = Len(y.params)
            /\ \A i \in 1..Len(x.params) :
                    isEqualTypeNoLength(x.params[i].type, y.params[i].type)
            /\ isEqualTypeNoLength(x.retType, y.retType)
      [] y.tag = "Object" ->
            /\ x.tag = "Object"
            /\ \A i \in 1..Len(x.props) :
                    LET bType == FromEntries(y.props, x.props[i].name)
                    IN  /\ bType # Undefined
                        /\ isEqualTypeNoLength(x.props[i].type, bType)

RECURSIVE isEqualType(_, _)
isEqualType(x, y) ==
    CASE y.tag \in {"Number", "Boolean"} -> x.tag = y.tag
      [] y.tag = "Func" ->
            /\ x.tag = "Func"
            /\ Len(x.params) = Len(y.params)
            /\ \A i \in 1..Len(x.params) :
                    isEqualType(x.params[i].type, y.params[i].type)
            /\ isEqualType(x.retType, y.retType)
      [] y.tag = "Object" ->
            /\ x.tag = "Object"
            /\ Len(x.props) = Len(y.props)
            /\ \A i \in 1..Len(x.props) :
                    LET bType == FromEntries(y.props, x.props[i].name)
                    IN  /\ bType # Undefined
                        /\ isEqualType(x.props[i].type, bType)

\* isSubtypeOf with the parameters of a Func type compared covariantly
RECURSIVE isSubtypeOfCovariant(_, _)
isSubtypeOfCovariant(x, y) ==
    CASE y.tag \in {"Number", "Boolean"} -> x.tag = y.tag
      [] y.tag = "Func" ->
            /\ x.tag = y.tag
            /\ Len(x.params) = Len(y.params)
            /\ \A i \in 1..Len(x.params) :
                    isSubtypeOfCovariant(x.params[i].type, y.params[i].type)
            /\ isSubtypeOfCovariant(x.retType, y.retType)
      [] y.tag = "Object" ->
            /\ x.tag = y.tag
            /\ \A i \in 1..Len(y.props) :
                    LET ap == Find(x.props, y.props[i].name)
                    IN  /\ ap # Undefined
                        /\ isSubtypeOfCovariant(ap.type, y.props[i].type)

\* isSubtypeOf with the parameters of a Func type compared in either direction
RECURSIVE isSubtypeOfBivariant(_, _)
isSubtypeOfBivariant(x, y) ==
    CASE y.tag \in {"Number", "Boolean"} -> x.tag = y.tag
      [] y.tag = "Func" ->
            /\ x.tag = y.tag
            /\ Len(x.params) = Len(y.params)
            /\ \A i \in 1..Len(x.params) :
                    \/ isSubtypeOfBivariant(y.params[i].type, x.params[i].type)
                    \/ isSubtypeOfBivariant(x.params[i].type, y.params[i].type)
            /\ isSubtypeOfBivariant(x.retType, y.retType)
      [] y.tag = "Object" ->
            /\ x.tag = y.tag
            /\ \A i \in 1..Len(y.props) :
                    LET ap == Find(x.props, y.props[i].name)
                    IN  /\ ap # Undefined
                        /\ isSubtypeOfBivariant(ap.type, y.props[i].type)

RECURSIVE isSubtypeOf(_, _)
isSubtypeOf(x, y) ==
    CASE y.tag \in {"Number", "Boolean"} -> x.tag = y.tag
      [] y.tag = "Func" ->
            /\ x.tag = y.tag
            /\ Len(x.params) = Len(y.params)
            /\ \A i \in 1..Len(x.params) :
                    isSubtypeOf(y.params[i].type, x.params[i].type)
            /\ isSubtypeOf(x.retType, y.retType)
      [] y.tag = "Object" ->
            /\ x.tag = y.tag
            /\ \A i \in 1..Len(y.props) :
                    LET ap == Find(x.props, y.props[i].name)
                    IN  /\ ap # Undefined
                        /\ isSubtypeOf(ap.type, y.props[i].type)

----------------------------------------------------------------------------
(* Terms: part_000 lines 9-23, part_004 lines 13-36, basic.ts lines 25-37 *)

TrueTm == [tag |-> "true"]
FalseTm == [tag |-> "false"]
NumberTm == [tag |-> "number", n |-> 1]
IfTm(cond, thn, els) == [tag |-> "if", cond |-> cond, thn |-> thn, els |-> els]
AddTm(left, right) == [tag |-> "add", left |-> left, right |-> right]
VarTm(name) == [tag |-> "var", name |-> name]
FuncTm(params, body) == [tag |-> "func", params |-> params, body |-> body]
CallTm(func, args) == [tag |-> "call", func |-> func, args |-> args]
SeqTm(body, rest) == [tag |-> "seq", body |-> body, rest |-> rest]
ConstTm(name, init, rest) == [tag |-> "const", name |-> name, init |-> init, rest |-> rest]
\* a func term with a declared return type, and the function declaration
FuncRetTm(params, retType, body) ==
    [tag |-> "func", params |-> params, retType |-> retType, body |-> body]
RecFuncTm(funcName, params, retType, body, rest) ==
    [tag |-> "recFunc", funcName |-> funcName, params |-> params, retType |-> retType,
     body |-> body, rest |-> rest]
Seq2Tm(body) == [tag |-> "seq2", body |-> body]
Const2Tm(name, init) == [tag |-> "const2", name |-> name, init |-> init]
ObjectNewTm(props) == [tag |-> "objectNew", props |-> props]
ObjectGetTm(obj, propName) == [tag |-> "objectGet", obj |-> obj, propName |-> propName]
\* PropTerm: { name, term }
PropTerm(name, tm) == [name |-> name, term |-> tm]

(* TypeEnv: Record<string, Type>.  A missing key reads as undefined. *)
EmptyEnv == [n \in VarNames |-> Undefined]
\* the property names every TypeEnv object inherits from Object.prototype (one of them)
ProtoNames == {"toString"}
\* Object.prototype[name]: a function object, a value that has no tag
Inherited(name) == [tag |-> "inherited", name |-> name]
\* tyEnv[name]: the own binding, else the inherited property, else undefined
Lookup(env, name) ==
    IF name \in DOMAIN env /\ env[name] # Undefined THEN env[name]
    ELSE IF name \in ProtoNames THEN Inherited(name)
    ELSE Undefined
\* { ...tyEnv, [name]: type }
Extend(env, name, type) == [env EXCEPT ![name] = type]
\* ExtendParams with the first parameter of a name winning
ExtendParamsFirstWins(env, params) ==
    [n \in VarNames |->
        IF Find(params, n) = Undefined THEN env[n] ELSE Find(params, n).type]
\* { ...tyEnv, ...Object.fromEntries(params.map((p) => [p.name, p.type])) } and
\* the loop scopedTyEnv[param.name] = param.type: the last parameter of a name wins
ExtendParams(env, params) ==
    [n \in VarNames |->
        IF FromEntries(params, n) = Undefined THEN env[n] ELSE FromEntries(params, n)]

(* The outcome of a call of typecheck: the returned Type or the thrown message *)
\* the two messages of case "add" (the source quotes the + with backticks)
LeftMsg == "number expected on left side of '+'"
RightMsg == "number expected on right side of '+'"
Ok(ty) == [ok |-> TRUE, ty |-> ty]
Err(msg) == [ok |-> FALSE, err |-> msg]
\* FirstErr reporting the last throw of the sequence
LastErr(rs) == rs[CHOOSE i \in 1..Len(rs) : ~rs[i].ok /\ \A j \in (i + 1)..Len(rs) : rs[j].ok]
\* the first element of a sequence of outcomes that is a throw
FirstErr(rs) == rs[CHOOSE i \in 1..Len(rs) : ~rs[i].ok /\ \A j \in 1..(i - 1) : rs[j].ok]
AllOk(rs) == \A i \in 1..Len(rs) : rs[i].ok

(* typecheck of the arithmetic dialect: src/src/arith.ts lines 16-50 *)

RECURSIVE typecheckArith(_)
\* case "if"
ArithIf(t) ==
    LET condTy == typecheckArith(t.cond)
        thnTy == typecheckArith(t.thn)
        elsTy == typecheckArith(t.els)
    IN  IF ~condTy.ok THEN condTy
        ELSE IF condTy.ty.tag # "Boolean" THEN Err("boolean expected")
        ELSE IF ~thnTy.ok THEN thnTy
        ELSE IF ~elsTy.ok THEN elsTy
        ELSE IF thnTy.ty.tag # elsTy.ty.tag THEN Err("branches must have the same type")
        ELSE thnTy

\* ArithAdd with the right operand checked before the left one
ArithAddRightFirst(t) ==
    LET leftTy == typecheckArith(t.left)
        rightTy == typecheckArith(t.right)
    IN  IF ~rightTy.ok THEN rightTy
        ELSE IF rightTy.ty.tag # "Number" THEN Err(RightMsg)
        ELSE IF ~leftTy.ok THEN leftTy
        ELSE IF leftTy.ty.tag # "Number" THEN Err(LeftMsg)
        ELSE Ok(NumberT)

\* case "add"
ArithAdd(t) ==
    LET leftTy == typecheckArith(t.left)
        rightTy == typecheckArith(t.right)
    IN  IF ~leftTy.ok THEN leftTy
        ELSE IF leftTy.ty.tag # "Number" THEN Err(LeftMsg)
        ELSE IF ~rightTy.ok THEN rightTy
        ELSE IF rightTy.ty.tag # "Number" THEN Err(RightMsg)
        ELSE Ok(NumberT)

typecheckArith(t) ==
    CASE t.tag \in {"true", "false"} -> Ok(BooleanT)
      [] t.tag = "if" -> ArithIf(t)
      [] t.tag = "number" -> Ok(NumberT)
      [] t.tag = "add" -> ArithAdd(t)
      [] OTHER -> Err("unknown term")

\* typecheck2 of src/arith.ts: the condition is checked and its type dropped;
\* every subterm is checked by typecheck
typecheck2(t) ==
    CASE t.tag \in {"true", "false"} -> Ok(BooleanT)
      [] t.tag = "if" ->
            LET condTy == typecheckArith(t.cond)
                thnTy == typecheckArith(t.thn)
                elsTy == typecheckArith(t.els)
            IN  IF ~condTy.ok THEN condTy
                ELSE IF ~thnTy.ok THEN thnTy
                ELSE IF ~elsTy.ok THEN elsTy
                ELSE IF thnTy.ty.tag # elsTy.ty.tag
                    THEN Err("branches must have the same type")
                ELSE thnTy
      [] t.tag = "number" -> Ok(NumberT)
      [] t.tag = "add" -> ArithAdd(t)
      [] OTHER -> Err("unknown term")

(* The bindings and functions dialect: src/src/basic.ts lines 41-143 *)

RECURSIVE typeEq(_, _)
typeEq(x, y) ==
    CASE y.tag = "Func" ->
            /\ x.tag = "Func"
            /\ Len(x.params) = Len(y.params)
            /\ \A i \in 1..Len(x.params) : typeEq(x.params[i].type, y.params[i].type)
            /\ typeEq(x.retType, y.retType)
      [] OTHER -> x.tag = y.tag

\* seq2 writes into the TypeEnv object it is given (tyEnv[term.name] = initTy), so
\* every outcome carries the contents of that object when the call ends
OkE(ty, env) == [ok |-> TRUE, ty |-> ty, env |-> env]
ErrE(msg, env) == [ok |-> FALSE, err |-> msg, env |-> env]
\* the outcome without the environment
Outcome(r) == IF r.ok THEN Ok(r.ty) ELSE Err(r.err)

RECURSIVE typecheckBasic(_, _)
RECURSIVE BasicArgsLoop(_, _, _, _)
RECURSIVE BasicSeq2Loop(_, _, _, _)

\* BasicIf with the condition's type tested after the branches are checked
BasicIfBranchesFirst(t, env) ==
    LET condTy == typecheckBasic(t.cond, env)
    IN  IF ~condTy.ok THEN condTy
        ELSE LET thnTy == typecheckBasic(t.thn, condTy.env)
             IN  IF ~thnTy.ok THEN thnTy
                 ELSE LET elsTy == typecheckBasic(t.els, thnTy.env)
                      IN  IF ~elsTy.ok THEN elsTy
                          ELSE IF condTy.ty.tag # "Boolean"
                              THEN ErrE("boolean expected", elsTy.env)
                          ELSE IF ~typeEq(thnTy.ty, elsTy.ty)
                              THEN ErrE("branches must have the same type", elsTy.env)
                          ELSE OkE(thnTy.ty, elsTy.env)

\* case "if"
BasicIf(t, env) ==
    LET condTy == typecheckBasic(t.cond, env)
    IN  IF ~condTy.ok THEN condTy
        ELSE IF condTy.ty.tag # "Boolean" THEN ErrE("boolean expected", condTy.env)
        ELSE LET thnTy == typecheckBasic(t.thn, condTy.env)
             IN  IF ~thnTy.ok THEN thnTy
                 ELSE LET elsTy == typecheckBasic(t.els, thnTy.env)
                      IN  IF ~elsTy.ok THEN elsTy
                          ELSE IF ~typeEq(thnTy.ty, elsTy.ty)
                              THEN ErrE("branches must have the same type", elsTy.env)
                          ELSE OkE(thnTy.ty, elsTy.env)

\* case "add"
BasicAdd(t, env) ==
    LET leftTy == typecheckBasic(t.left, env)
    IN  IF ~leftTy.ok THEN leftTy
        ELSE IF leftTy.ty.tag # "Number" THEN ErrE(LeftMsg, leftTy.env)
        ELSE LET rightTy == typecheckBasic(t.right, leftTy.env)
             IN  IF ~rightTy.ok THEN rightTy
                 ELSE IF rightTy.ty.tag # "Number" THEN ErrE(RightMsg, rightTy.env)
                 ELSE OkE(NumberT, rightTy.env)

\* the loop of case "call", from argument i on
BasicArgsLoop(args, params, i, env) ==
    IF i > Len(args) THEN OkE(Nil, env)
    ELSE LET argTy == typecheckBasic(args[i], env)
         IN  IF ~argTy.ok THEN argTy
             ELSE IF ~typeEq(argTy.ty, params[i].type)
                 THEN ErrE("parameter type mismatch", argTy.env)
             ELSE BasicArgsLoop(args, params, i + 1, argTy.env)

\* BasicCall without the comparison of the counts: the loop runs over the
\* arguments that have a parameter
BasicCallNoArity(t, env) ==
    LET funcTy == typecheckBasic(t.func, env)
    IN  IF ~funcTy.ok THEN funcTy
        ELSE IF funcTy.ty.tag # "Func" THEN ErrE("function expected", funcTy.env)
        ELSE LET n == IF Len(t.args) < Len(funcTy.ty.params)
                      THEN Len(t.args) ELSE Len(funcTy.ty.params)
                 loop == BasicArgsLoop(SubSeq(t.args, 1, n), funcTy.ty.params, 1,
                                       funcTy.env)
             IN  IF ~loop.ok THEN loop ELSE OkE(funcTy.ty.retType, loop.env)

\* BasicCall with the arguments checked before the counts are compared
BasicCallArgsFirst(t, env) ==
    LET funcTy == typecheckBasic(t.func, env)
    IN  IF ~funcTy.ok THEN funcTy
        ELSE IF funcTy.ty.tag # "Func" THEN ErrE("function expected", funcTy.env)
        ELSE LET n == IF Len(t.args) < Len(funcTy.ty.params)
                      THEN Len(t.args) ELSE Len(funcTy.ty.params)
                 loop == BasicArgsLoop(SubSeq(t.args, 1, n), funcTy.ty.params, 1,
                                       funcTy.env)
             IN  IF ~loop.ok THEN loop
                 ELSE IF Len(funcTy.ty.params) # Len(t.args)
                     THEN ErrE("wrong number of arguments", loop.env)
                 ELSE OkE(funcTy.ty.retType, loop.env)

\* case "call"
BasicCall(t, env) ==
    LET funcTy == typecheckBasic(t.func, env)
    IN  IF ~funcTy.ok THEN funcTy
        ELSE IF funcTy.ty.tag # "Func" THEN ErrE("function expected", funcTy.env)
        ELSE IF Len(funcTy.ty.params) # Len(t.args)
            THEN ErrE("wrong number of arguments", funcTy.env)
        ELSE LET loop == BasicArgsLoop(t.args, funcTy.ty.params, 1, funcTy.env)
             IN  IF ~loop.ok THEN loop ELSE OkE(funcTy.ty.retType, loop.env)

\* a loop of case "seq2" that does not write tyEnv[term.name]
RECURSIVE BasicSeq2LoopNoBind(_, _, _, _)
BasicSeq2LoopNoBind(body, i, env, lastTy) ==
    IF i > Len(body)
    THEN IF lastTy = Nil THEN ErrE("empty sequence", env) ELSE OkE(lastTy, env)
    ELSE LET ty == typecheckBasic(IF body[i].tag = "const2" THEN body[i].init
                                  ELSE body[i], env)
         IN  IF ~ty.ok THEN ty
             ELSE BasicSeq2LoopNoBind(body, i + 1, ty.env, ty.ty)

\* the loop of case "seq2", from statement i on; lastTy is Nil for null
BasicSeq2Loop(body, i, env, lastTy) ==
    IF i > Len(body)
    THEN IF lastTy = Nil THEN ErrE("empty sequence", env) ELSE OkE(lastTy, env)
    ELSE IF body[i].tag = "const2"
         THEN LET initTy == typecheckBasic(body[i].init, env)
              IN  IF ~initTy.ok THEN initTy
                  ELSE BasicSeq2Loop(body, i + 1,
                                     Extend(initTy.env, body[i].name, initTy.ty),
                                     initTy.ty)
         ELSE LET ty == typecheckBasic(body[i], env)
              IN  IF ~ty.ok THEN ty
                  ELSE BasicSeq2Loop(body, i + 1, ty.env, ty.ty)

typecheckBasic(t, env) ==
    CASE t.tag \in {"true", "false"} -> OkE(BooleanT, env)
      [] t.tag = "if" -> BasicIf(t, env)
      [] t.tag = "number" -> OkE(NumberT, env)
      [] t.tag = "add" -> BasicAdd(t, env)
      [] t.tag = "var" ->
            IF Lookup(env, t.name) = Undefined
            THEN ErrE("unknown variable: " \o t.name, env)
            ELSE OkE(Lookup(env, t.name), env)
      [] t.tag = "func" ->
            \* scopedTyEnv is a new object: what the body writes stays in it
            LET scopedTyEnv == ExtendParams(env, t.params)
                retType == typecheckBasic(t.body, scopedTyEnv)
            IN  IF ~retType.ok THEN ErrE(retType.err, env)
                ELSE OkE(FuncT(t.params, retType.ty), env)
      [] t.tag = "call" -> BasicCall(t, env)
      [] t.tag = "seq" ->
            LET bodyTy == typecheckBasic(t.body, env)
            IN  IF ~bodyTy.ok THEN bodyTy ELSE typecheckBasic(t.rest, bodyTy.env)
      [] t.tag = "const" ->
            \* rest is checked with a new object { ...tyEnv, [t.name]: initTy }
            LET initTy == typecheckBasic(t.init, env)
            IN  IF ~initTy.ok THEN initTy
                ELSE LET restTy == typecheckBasic(t.rest,
                                        Extend(initTy.env, t.name, initTy.ty))
                     IN  IF ~restTy.ok THEN ErrE(restTy.err, initTy.env)
                         ELSE OkE(restTy.ty, initTy.env)
      [] t.tag = "seq2" -> BasicSeq2Loop(t.body, 1, env, Nil)
      [] t.tag = "const2" -> ErrE("const2 must not be reached", env)
      [] OTHER -> ErrE("unknown term", env)

(* typecheck of the subtyping dialect: part_000 lines 96-180 *)

\* the check of argument i inside the loop of case "call"
RECURSIVE typecheckSub(_, _)
SubArgCheck(arg, param, env) ==
    LET argTy == typecheckSub(arg, env)
    IN  IF ~argTy.ok THEN argTy
        ELSE IF ~isEqualType(argTy.ty, param.type) THEN Err("parameter type mismatch")
        ELSE argTy

\* SubObjectNew with the props of the result in the reverse order
SubObjectNewReversed(t, env) ==
    LET rs == [i \in 1..Len(t.props) |-> typecheckSub(t.props[i].term, env)]
    IN  IF AllOk(rs)
        THEN Ok(ObjectT([i \in 1..Len(t.props) |->
                            NameType(t.props[Len(t.props) + 1 - i].name,
                                     rs[Len(t.props) + 1 - i].ty)]))
        ELSE FirstErr(rs)

\* case "objectNew"
SubObjectNew(t, env) ==
    LET rs == [i \in 1..Len(t.props) |-> typecheckSub(t.props[i].term, env)]
    IN  IF AllOk(rs)
        THEN Ok(ObjectT([i \in 1..Len(t.props) |-> NameType(t.props[i].name, rs[i].ty)]))
        ELSE FirstErr(rs)

\* SubObjectGet returning the type of the first property whatever its name
SubObjectGetFirstProp(t, env) ==
    LET objTy == typecheckSub(t.obj, env)
    IN  IF ~objTy.ok THEN objTy
        ELSE IF objTy.ty.tag # "Object" THEN Err("object expected")
        ELSE IF Len(objTy.ty.props) = 0 THEN Err("unknown property: " \o t.propName)
        ELSE Ok(objTy.ty.props[1].type)

\* case "objectGet"
SubObjectGet(t, env) ==
    LET objTy == typecheckSub(t.obj, env)
    IN  IF ~objTy.ok THEN objTy
        ELSE IF objTy.ty.tag # "Object" THEN Err("object expected")
        ELSE LET propTy == Find(objTy.ty.props, t.propName)
             IN  IF propTy = Undefined
                 THEN Err("unknown property: " \o t.propName)
                 ELSE Ok(propTy.type)

typecheckSub(t, env) ==
    CASE t.tag \in {"true", "false"} -> Ok(BooleanT)
      [] t.tag = "number" -> Ok(NumberT)
      [] t.tag = "add" ->
            LET leftTy == typecheckSub(t.left, env)
                rightTy == typecheckSub(t.right, env)
            IN  IF ~leftTy.ok THEN leftTy
                ELSE IF leftTy.ty.tag # "Number"
                    THEN Err(LeftMsg)
                ELSE IF ~rightTy.ok THEN rightTy
                ELSE IF rightTy.ty.tag # "Number"
                    THEN Err(RightMsg)
                ELSE Ok(NumberT)
      [] t.tag = "var" ->
            IF Lookup(env, t.name) = Undefined
            THEN Err("unknown variable: " \o t.name)
            ELSE Ok(Lookup(env, t.name))
      [] t.tag = "func" ->
            LET tyScope == ExtendParams(env, t.params)
                retType == typecheckSub(t.body, tyScope)
            IN  IF ~retType.ok THEN retType
                ELSE Ok(FuncT(t.params, retType.ty))
      [] t.tag = "call" ->
            LET funcTy == typecheckSub(t.func, env)
            IN  IF ~funcTy.ok THEN funcTy
                ELSE IF funcTy.ty.tag # "Func" THEN Err("function expected")
                ELSE IF Len(funcTy.ty.params) # Len(t.args)
                    THEN Err("wrong number of arguments")
                ELSE LET rs == [i \in 1..Len(t.args) |->
                                    SubArgCheck(t.args[i], funcTy.ty.params[i], env)]
                     IN  IF AllOk(rs) THEN Ok(funcTy.ty.retType) ELSE FirstErr(rs)
      [] t.tag = "seq" ->
            LET bodyTy == typecheckSub(t.body, env)
            IN  IF ~bodyTy.ok THEN bodyTy ELSE typecheckSub(t.rest, env)
      [] t.tag = "const" ->
            LET initTy == typecheckSub(t.init, env)
            IN  IF ~initTy.ok THEN initTy
                ELSE typecheckSub(t.rest, Extend(env, t.name, initTy.ty))
      [] t.tag = "objectNew" -> SubObjectNew(t, env)
      [] t.tag = "objectGet" -> SubObjectGet(t, env)
      [] OTHER -> Err("unknown term")

(* The recursive-function dialect: part_004 lines 47-162 *)

\* typeEq of part_004
RECURSIVE typeEqRec(_, _)
typeEqRec(x, y) ==
    CASE y.tag \in {"Number", "Boolean"} -> x.tag = y.tag
      [] y.tag = "Func" ->
            /\ x.tag = "Func"
            /\ Len(x.params) = Len(y.params)
            /\ \A i \in 1..Len(x.params) : typeEqRec(x.params[i].type, y.params[i].type)
            /\ typeEqRec(x.retType, y.retType)

RECURSIVE typecheckRec(_, _, _)

\* t.retType !== undefined
HasRetType(t) == "retType" \in DOMAIN t

\* RecFuncScope without the binding of the const name
RecFuncScopeNoSelf(t, env, p) == ExtendParams(env, t.params)

\* RecFuncScope with the parameters written over the binding of the const name
RecFuncScopeParamsWin(t, env, p) ==
    IF HasRetType(t) /\ p.tag = "const"
    THEN ExtendParams(Extend(env, p.name, FuncT(t.params, t.retType)), t.params)
    ELSE ExtendParams(env, t.params)

\* the scope of the body of a func term whose parent term is p (Nil: no parent given)
RecFuncScope(t, env, p) ==
    LET tyScope == ExtendParams(env, t.params)
    IN  IF HasRetType(t) /\ p.tag = "const"
        THEN Extend(tyScope, p.name, FuncT(t.params, t.retType))
        ELSE tyScope

\* case "func"
RecFunc(t, env, p) ==
    LET retType == typecheckRec(t.body, RecFuncScope(t, env, p), Nil)
    IN  IF ~retType.ok THEN retType
        ELSE IF HasRetType(t) /\ ~typeEqRec(t.retType, retType.ty)
            THEN Err("return type mismatch")
        ELSE Ok(FuncT(t.params, retType.ty))

\* RecFuncDecl with the parameters left bound in rest
RecFuncDeclParamsEscape(t, env) ==
    LET selfTy == FuncT(t.params, t.retType)
        tyScope == Extend(ExtendParams(env, t.params), t.funcName, selfTy)
        retType == typecheckRec(t.body, tyScope, Nil)
    IN  IF ~retType.ok THEN retType
        ELSE IF ~typeEqRec(t.retType, retType.ty) THEN Err("return type mismatch")
        ELSE typecheckRec(t.rest, tyScope, Nil)

\* case "recFunc"
RecFuncDecl(t, env) ==
    LET selfTy == FuncT(t.params, t.retType)
        tyScope == Extend(ExtendParams(env, t.params), t.funcName, selfTy)
        retType == typecheckRec(t.body, tyScope, Nil)
    IN  IF ~retType.ok THEN retType
        ELSE IF ~typeEqRec(t.retType, retType.ty) THEN Err("return type mismatch")
        ELSE typecheckRec(t.rest, Extend(env, t.funcName, selfTy), Nil)

\* the check of argument i inside the loop of case "call"
RecArgCheck(arg, param, env) ==
    LET argTy == typecheckRec(arg, env, Nil)
    IN  IF ~argTy.ok THEN argTy
        ELSE IF ~typeEqRec(argTy.ty, param.type) THEN Err("parameter type mismatch")
        ELSE argTy

\* RecConst with init checked in the environment that already binds the name to
\* Number
RecConstBindsFirst(t, env) ==
    LET initTy == typecheckRec(t.init, Extend(env, t.name, NumberT), t)
    IN  IF ~initTy.ok THEN initTy
        ELSE typecheckRec(t.rest, Extend(env, t.name, initTy.ty), Nil)

\* case "const": init is checked with the const term as its parent
RecConst(t, env) ==
    LET initTy == typecheckRec(t.init, env, t)
    IN  IF ~initTy.ok THEN initTy
        ELSE typecheckRec(t.rest, Extend(env, t.name, initTy.ty), Nil)

typecheckRec(t, env, p) ==
    CASE t.tag \in {"true", "false"} -> Ok(BooleanT)
      [] t.tag = "if" ->
            LET condTy == typecheckRec(t.cond, env, Nil)
                thnTy == typecheckRec(t.thn, env, Nil)
                elsTy == typecheckRec(t.els, env, Nil)
            IN  IF ~condTy.ok THEN condTy
                ELSE IF condTy.ty.tag # "Boolean" THEN Err("boolean expected")
                ELSE IF ~thnTy.ok THEN thnTy
                ELSE IF ~elsTy.ok THEN elsTy
                ELSE IF ~typeEqRec(thnTy.ty, elsTy.ty)
                    THEN Err("branches must have the same type")
                ELSE thnTy
      [] t.tag = "number" -> Ok(NumberT)
      [] t.tag = "add" ->
            LET leftTy == typecheckRec(t.left, env, Nil)
                rightTy == typecheckRec(t.right, env, Nil)
            IN  IF ~leftTy.ok THEN leftTy
                ELSE IF leftTy.ty.tag # "Number" THEN Err(LeftMsg)
                ELSE IF ~rightTy.ok THEN rightTy
                ELSE IF rightTy.ty.tag # "Number" THEN Err(RightMsg)
                ELSE Ok(NumberT)
      [] t.tag = "var" ->
            IF Lookup(env, t.name) = Undefined
            THEN Err("unknown variable: " \o t.name)
            ELSE Ok(Lookup(env, t.name))
      [] t.tag = "func" -> RecFunc(t, env, p)
      [] t.tag = "recFunc" -> RecFuncDecl(t, env)
      [] t.tag = "call" ->
            LET funcTy == typecheckRec(t.func, env, Nil)
            IN  IF ~funcTy.ok THEN funcTy
                ELSE IF funcTy.ty.tag # "Func" THEN Err("function expected")
                ELSE IF Len(funcTy.ty.params) # Len(t.args)
                    THEN Err("wrong number of arguments")
                ELSE LET rs == [i \in 1..Len(t.args) |->
                                    RecArgCheck(t.args[i], funcTy.ty.params[i], env)]
                     IN  IF AllOk(rs) THEN Ok(funcTy.ty.retType) ELSE FirstErr(rs)
      [] t.tag = "seq" ->
            LET bodyTy == typecheckRec(t.body, env, Nil)
            IN  IF ~bodyTy.ok THEN bodyTy ELSE typecheckRec(t.rest, env, Nil)
      [] t.tag = "const" -> RecConst(t, env)

----------------------------------------------------------------------------
(* The types the relations are applied to *)

BaseTypes == {BooleanT, NumberT}

ParamTypesOver(S) == {NameType(n, t) : n \in VarNames, t \in S}
PropTypesOver(S) == {NameType(n, t) : n \in PropNames, t \in S}

\* Func and Object types over Boolean and Number
FlatFuncs == {FuncT(ps, r) : ps \in SeqsUpTo(ParamTypesOver(BaseTypes), MaxParams),
                             r \in BaseTypes}
FlatObjects == {ObjectT(ps) : ps \in SeqsUpTo(PropTypesOver(BaseTypes), MaxProps)}

\* the types nested inside another type
InnerTypes ==
    BaseTypes
      \cup {ObjectT(ps) : ps \in SeqsUpTo(PropTypesOver({NumberT}), MaxProps)}
      \cup {FuncT(<<>>, NumberT), FuncT(<<NameType("x", NumberT)>>, NumberT)}

NestedTypes ==
    {FuncT(<<NameType("x", t)>>, NumberT) : t \in InnerTypes}
      \cup {FuncT(<<>>, t) : t \in InnerTypes}
      \cup {ObjectT(<<NameType("a", t)>>) : t \in InnerTypes}

Types == BaseTypes \cup FlatFuncs \cup FlatObjects \cup NestedTypes

----------------------------------------------------------------------------
(* The terms and environments typecheck of the subtyping dialect is given *)

\* the name of the i-th parameter of a generated function literal
ParamNameAt(i) == IF i = 1 THEN "x" ELSE "f"
ParamsOf(ts) == [i \in 1..Len(ts) |-> NameType(ParamNameAt(i), ts[i])]

ObjA == ObjectT(<<NameType("a", NumberT)>>)
ObjAB == ObjectT(<<NameType("a", NumberT), NameType("b", BooleanT)>>)
ObjBA == ObjectT(<<NameType("b", BooleanT), NameType("a", NumberT)>>)

Atoms == {TrueTm, FalseTm, NumberTm} \cup {VarTm(n) : n \in VarNames}
\* functions that name a parameter twice: (x: number, x: boolean) => x
DupParamFuncs ==
    {FuncTm(<<NameType("x", t1), NameType("x", t2)>>, VarTm("x")) :
        t1, t2 \in {NumberT, BooleanT}}
\* terms whose free variable is a name of Object.prototype: toString, const x = toString; 1
ProtoTerms ==
    {VarTm(n) : n \in ProtoNames}
      \cup {ConstTm("x", VarTm(n), rest) : n \in ProtoNames, rest \in {NumberTm, VarTm("x")}}
      \cup {AddTm(VarTm(n), NumberTm) : n \in ProtoNames}
      \cup {CallTm(VarTm(n), <<>>) : n \in ProtoNames}

\* object literals, duplicate property names included ({ a: 1, a: true })
SubObjLits ==
    {ObjectNewTm(ps) :
        ps \in SeqsUpTo({PropTerm(n, t) : n \in PropNames,
                                          t \in {NumberTm, TrueTm, VarTm("x")}}, MaxProps)}

\* literals whose property is named like a variable, or with two failing terms
SubObjLitsMixed ==
    {ObjectNewTm(<<PropTerm("x", NumberTm), PropTerm("a", VarTm("x"))>>),
     ObjectNewTm(<<PropTerm("a", VarTm("x")), PropTerm("b", AddTm(TrueTm, NumberTm))>>),
     ObjectNewTm(<<PropTerm("a", AddTm(TrueTm, NumberTm)), PropTerm("b", VarTm("x"))>>)}

SubAnnTypes == {NumberT, ObjA, ObjAB, ObjBA}
SubBodies == {NumberTm, VarTm("x"), ObjectGetTm(VarTm("x"), "a"),
              AddTm(ObjectGetTm(VarTm("x"), "a"), NumberTm)}
SubFuncs == {FuncTm(ParamsOf(ts), body) :
                ts \in SeqsUpTo(SubAnnTypes, MaxParams), body \in SubBodies}
\* const n = (x: number) => { const f = x; f }; m
SubScoped ==
    {ConstTm(n, FuncTm(<<NameType("x", NumberT)>>, ConstTm("f", VarTm("x"), VarTm("f"))),
             VarTm(m)) : n, m \in VarNames}
SubArgs == {NumberTm, VarTm("x"),
            ObjectNewTm(<<PropTerm("a", NumberTm)>>),
            ObjectNewTm(<<PropTerm("a", NumberTm), PropTerm("b", TrueTm)>>),
            ObjectNewTm(<<PropTerm("b", TrueTm), PropTerm("a", NumberTm)>>)}
\* f(args) with f a function literal, a variable or a number
SubCalls == {CallTm(fn, args) : fn \in SubFuncs \cup {VarTm("f"), NumberTm},
                                args \in SeqsUpTo(SubArgs, MaxParams)}
\* const f = (...) => ...; f(args);
SubConstCalls == {ConstTm("f", fn, CallTm(VarTm("f"), args)) :
                    fn \in SubFuncs, args \in SeqsUpTo(SubArgs, MaxParams)}
SubExprs ==
    Atoms \cup SubObjLits
      \cup {AddTm(l, r) : l, r \in Atoms \cup {ObjectNewTm(<<>>)}}
      \cup {ObjectGetTm(o, p) : o \in Atoms \cup SubObjLits, p \in PropNames}
\* body; rest  and  const x = init; rest
SubSeqs ==
    {SeqTm(body, rest) : body, rest \in Atoms \cup {AddTm(TrueTm, NumberTm)}}
      \cup {ConstTm(n, init, rest) :
                n \in VarNames,
                init \in {NumberTm, TrueTm, VarTm("x"), AddTm(VarTm("x"), NumberTm),
                          ObjectNewTm(<<PropTerm("a", NumberTm), PropTerm("b", TrueTm)>>)},
                rest \in Atoms \cup {ObjectGetTm(VarTm(m), p) : m \in VarNames,
                                                              p \in PropNames \cup {"c"}}}

SubTerms ==
    SubExprs \cup SubFuncs \cup SubCalls \cup SubConstCalls \cup SubSeqs \cup ProtoTerms
      \cup DupParamFuncs \cup SubScoped \cup SubObjLitsMixed

SubEnvs == {EmptyEnv,
            [n \in VarNames |-> IF n = "x" THEN ObjAB
                                ELSE FuncT(<<NameType("x", ObjA)>>, NumberT)]}

----------------------------------------------------------------------------
(* The terms typecheck of the arithmetic dialect is given *)

ArithLeaves == {TrueTm, FalseTm, NumberTm}
\* one operator over leaves: well typed and ill typed
ArithFlat ==
    ArithLeaves
      \cup {AddTm(l, r) : l, r \in ArithLeaves}
      \cup {IfTm(c, t, e) : c, t, e \in ArithLeaves}
ArithBranches ==
    ArithLeaves
      \cup {AddTm(NumberTm, NumberTm), AddTm(TrueTm, NumberTm), AddTm(NumberTm, TrueTm),
            IfTm(TrueTm, NumberTm, NumberTm), IfTm(NumberTm, NumberTm, NumberTm),
            IfTm(TrueTm, NumberTm, TrueTm), IfTm(FalseTm, TrueTm, TrueTm)}
ArithTerms ==
    ArithFlat
      \cup {AddTm(l, r) : l, r \in ArithFlat}
      \cup {IfTm(c, t, e) : c \in ArithFlat, t, e \in ArithBranches}

----------------------------------------------------------------------------
(* The terms and environments typecheck of the bindings dialect is given *)

BasicAnnTypes == {NumberT, BooleanT, FuncT(<<>>, NumberT)}
\* a function body in the statement-list form: { const f = x; return f; }
Seq2Body == Seq2Tm(<<Const2Tm("f", VarTm("x")), VarTm("f")>>)
BasicBodies == {NumberTm, VarTm("x"), VarTm("f"), AddTm(VarTm("x"), NumberTm),
                CallTm(VarTm("x"), <<>>), Seq2Body}
BasicFuncs == {FuncTm(ParamsOf(ts), body) :
                ts \in SeqsUpTo(BasicAnnTypes, MaxParams), body \in BasicBodies}
BasicArgTerms == {NumberTm, TrueTm, VarTm("x"), AddTm(TrueTm, NumberTm),
                  FuncTm(<<>>, NumberTm)}
BasicCalls == {CallTm(fn, args) :
                fn \in BasicFuncs \cup {VarTm("f"), NumberTm, AddTm(TrueTm, NumberTm)},
                args \in SeqsUpTo(BasicArgTerms, MaxParams)}
BasicExprs ==
    Atoms
      \cup {AddTm(l, r) : l, r \in Atoms}
      \cup {IfTm(c, t, e) : c, t, e \in Atoms \cup {AddTm(TrueTm, NumberTm),
                                                   FuncTm(<<>>, NumberTm),
                                                   FuncTm(<<>>, TrueTm)}}
BasicSeqs ==
    {SeqTm(body, rest) : body, rest \in Atoms \cup {AddTm(TrueTm, NumberTm)}}
      \cup {SeqTm(Seq2Tm(<<Const2Tm(n, init)>>), VarTm(m)) :
                n, m \in VarNames, init \in {NumberTm, TrueTm}}
      \cup {ConstTm(n, init, rest) :
                n \in VarNames,
                init \in {NumberTm, TrueTm, VarTm("x"), AddTm(VarTm("x"), NumberTm),
                          FuncTm(<<NameType("x", NumberT)>>, VarTm("x")),
                          FuncTm(<<NameType("x", NumberT)>>, Seq2Body)},
                rest \in Atoms \cup {CallTm(VarTm(m), <<NumberTm>>) : m \in VarNames}}
\* the statements of a flat statement list (seq2)
BasicStmts ==
    {Const2Tm(n, init) : n \in VarNames,
                         init \in {NumberTm, TrueTm, VarTm("x"),
                                   FuncTm(<<NameType("x", NumberT)>>, VarTm("x"))}}
      \cup {Const2Tm("x", FuncTm(<<NameType("x", NumberT)>>, Seq2Body))}
      \cup {NumberTm, VarTm("x"), VarTm("f"), AddTm(VarTm("x"), NumberTm),
            CallTm(VarTm("f"), <<NumberTm>>)}
BasicSeq2s == {Seq2Tm(body) : body \in SeqsUpTo(BasicStmts, MaxStmts)}

BasicTerms ==
    BasicExprs \cup BasicFuncs \cup BasicCalls \cup BasicSeqs \cup BasicSeq2s \cup ProtoTerms
      \cup DupParamFuncs

BasicEnvs == {EmptyEnv,
              [n \in VarNames |-> IF n = "x" THEN NumberT
                                  ELSE FuncT(<<NameType("x", NumberT)>>, BooleanT)]}

----------------------------------------------------------------------------
(* A call of typecheck of one of the dialects *)

InitTc ==
    /\ pc = "ready"
    /\ \/ op \in {"typecheckArith", "typecheck2"} /\ term \in ArithTerms /\ tyEnv = Nil
       \/ op = "typecheckBasic" /\ term \in BasicTerms /\ tyEnv \in BasicEnvs
       \/ op = "typecheckSub" /\ term \in SubTerms /\ tyEnv \in SubEnvs
    /\ a = Nil
    /\ b = Nil
    /\ envAfter = Nil
    /\ result = Nil
    /\ argv = Nil
    /\ proc = Nil

\* typecheck(term) of src/arith.ts
CallTypecheckArith ==
    /\ pc = "ready"
    /\ op = "typecheckArith"
    /\ result' = typecheckArith(term)
    /\ pc' = "done"
    /\ UNCHANGED <<op, argv, proc, a, b, term, tyEnv, envAfter>>

\* typecheck(term, tyEnv) of src/basic.ts
CallTypecheckBasic ==
    /\ pc = "ready"
    /\ op = "typecheckBasic"
    /\ result' = Outcome(typecheckBasic(term, tyEnv))
    /\ envAfter' = typecheckBasic(term, tyEnv).env
    /\ pc' = "done"
    /\ UNCHANGED <<op, argv, proc, a, b, term, tyEnv>>

\* typecheck(term, tyEnv) of the subtyping dialect, which never writes into tyEnv
CallTypecheckSub ==
    /\ pc = "ready"
    /\ op = "typecheckSub"
    /\ result' = typecheckSub(term, tyEnv)
    /\ envAfter' = tyEnv
    /\ pc' = "done"
    /\ UNCHANGED <<op, argv, proc, a, b, term, tyEnv>>

\* typecheck2(term) of src/arith.ts
CallTypecheck2 ==
    /\ pc = "ready"
    /\ op = "typecheck2"
    /\ result' = typecheck2(term)
    /\ pc' = "done"
    /\ UNCHANGED <<op, argv, proc, a, b, term, tyEnv, envAfter>>

NextTc == CallTypecheckArith \/ CallTypecheck2 \/ CallTypecheckBasic \/ CallTypecheckSub

SpecTc == InitTc /\ [][NextTc]_vars

----------------------------------------------------------------------------
(* Calls of the type relations *)

RelOps == {"isEqualType", "isSubtypeOf"}

InitRel ==
    /\ pc = "ready"
    /\ op \in RelOps
    /\ a \in Types
    /\ b \in Types
    /\ term = Nil
    /\ tyEnv = Nil
    /\ envAfter = Nil
    /\ result = Nil
    /\ argv = Nil
    /\ proc = Nil

CallIsEqualType ==
    /\ pc = "ready"
    /\ op = "isEqualType"
    /\ result' = isEqualType(a, b)
    /\ pc' = "done"
    /\ UNCHANGED <<op, argv, proc, a, b, term, tyEnv, envAfter>>

CallIsSubtypeOf ==
    /\ pc = "ready"
    /\ op = "isSubtypeOf"
    /\ result' = isSubtypeOf(a, b)
    /\ pc' = "done"
    /\ UNCHANGED <<op, argv, proc, a, b, term, tyEnv, envAfter>>

NextRel == CallIsEqualType \/ CallIsSubtypeOf

SpecRel == InitRel /\ [][NextRel]_vars

----------------------------------------------------------------------------
(* The terms and environments typecheck of the recursive-function dialect is given *)

RecAnnTypes == {NumberT, BooleanT}
RecRetTypes == {NumberT, BooleanT, FuncT(<<NameType("x", NumberT)>>, NumberT)}
RecBodies == {NumberTm, VarTm("x"), VarTm("f"),
              CallTm(VarTm("f"), <<VarTm("x")>>), CallTm(VarTm("f"), <<NumberTm>>),
              FuncTm(<<NameType("f", NumberT)>>, VarTm("f"))}
\* (params) => body  and  (params): retType => body
RecFuncs ==
    {FuncTm(ParamsOf(ts), body) :
        ts \in SeqsUpTo(RecAnnTypes, MaxParams), body \in RecBodies}
      \cup {FuncRetTm(ParamsOf(ts), r, body) :
                ts \in SeqsUpTo(RecAnnTypes, MaxParams), r \in RecRetTypes,
                body \in RecBodies}
\* a function with a declared return type that calls f, not itself the init of a const
RecNested ==
    {SeqTm(NumberTm, fn) :
        fn \in {FuncRetTm(<<NameType("x", NumberT)>>, NumberT, body) :
                    body \in {CallTm(VarTm("f"), <<VarTm("x")>>), VarTm("x")}}}
      \cup {FuncTm(<<>>, FuncRetTm(<<NameType("x", NumberT)>>, NumberT,
                                   CallTm(VarTm("f"), <<VarTm("x")>>)))}
RecRests ==
    {VarTm("x"), VarTm("f"), CallTm(VarTm("f"), <<NumberTm>>),
     ConstTm("x", TrueTm, VarTm("x"))}
\* const n = init; rest
RecConsts ==
    {ConstTm(n, init, rest) :
        n \in VarNames,
        init \in RecFuncs \cup RecNested
                  \cup {NumberTm, VarTm("x"), AddTm(VarTm("x"), NumberTm),
                        AddTm(VarTm("f"), NumberTm)},
        rest \in RecRests}
\* function n(params): retType { body }; rest
RecFuncDecls ==
    {RecFuncTm(n, ParamsOf(ts), r, body, rest) :
        n \in VarNames, ts \in SeqsUpTo(RecAnnTypes, MaxParams), r \in RecRetTypes,
        body \in RecBodies, rest \in RecRests}
RecExprs ==
    Atoms
      \cup {IfTm(c, t, e) : c \in {TrueTm, NumberTm}, t, e \in Atoms}
      \cup {SeqTm(body, rest) : body, rest \in Atoms \cup {AddTm(TrueTm, NumberTm)}}
      \cup {CallTm(fn, <<arg>>) : fn \in {VarTm("f"), VarTm("x")}, arg \in Atoms}

RecTerms == RecExprs \cup RecFuncs \cup RecNested \cup RecConsts \cup RecFuncDecls

RecEnvs == BasicEnvs

InitRec ==
    /\ pc = "ready"
    /\ op = "typecheckRec"
    /\ term \in RecTerms
    /\ tyEnv \in RecEnvs
    /\ a = Nil
    /\ b = Nil
    /\ envAfter = Nil
    /\ result = Nil
    /\ argv = Nil
    /\ proc = Nil

\* typecheck(term, tyEnv) of the recursive-function dialect, called without a parent
CallTypecheckRec ==
    /\ pc = "ready"
    /\ op = "typecheckRec"
    /\ result' = typecheckRec(term, tyEnv, Nil)
    /\ envAfter' = tyEnv
    /\ pc' = "done"
    /\ UNCHANGED <<op, argv, proc, a, b, term, tyEnv>>

NextRec == CallTypecheckRec

SpecRec == InitRec /\ [][NextRec]_vars

----------------------------------------------------------------------------
(* What the claims speak about *)

\* the types typecheck of the subtyping dialect returns for the generated terms
SubReturnedTypes ==
    {typecheckSub(t, env).ty :
        <<t, env>> \in {te \in SubTerms \X SubEnvs : typecheckSub(te[1], te[2]).ok}}

\* t with every function parameter given the other name
RECURSIVE Renamed(_)
Renamed(t) ==
    CASE t.tag = "Func" ->
            FuncT([i \in 1..Len(t.params) |->
                      NameType(IF t.params[i].name = "x" THEN "f" ELSE "x",
                               Renamed(t.params[i].type))],
                  Renamed(t.retType))
      [] t.tag = "Object" ->
            ObjectT([i \in 1..Len(t.props) |->
                        NameType(t.props[i].name, Renamed(t.props[i].type))])
      [] OTHER -> t

\* t with the props of every Object type in the reverse order
RECURSIVE Reordered(_)
Reordered(t) ==
    CASE t.tag = "Func" ->
            FuncT([i \in 1..Len(t.params) |->
                      NameType(t.params[i].name, Reordered(t.params[i].type))],
                  Reordered(t.retType))
      [] t.tag = "Object" ->
            ObjectT([i \in 1..Len(t.props) |->
                        NameType(t.props[Len(t.props) + 1 - i].name,
                                 Reordered(t.props[Len(t.props) + 1 - i].type))])
      [] OTHER -> t

\* no Object type inside t names a property twice
RECURSIVE NoDuplicateProps(_)
NoDuplicateProps(t) ==
    CASE t.tag = "Func" ->
            /\ \A i \in 1..Len(t.params) : NoDuplicateProps(t.params[i].type)
            /\ NoDuplicateProps(t.retType)
      [] t.tag = "Object" ->
            /\ \A i, j \in 1..Len(t.props) :
                    t.props[i].name = t.props[j].name => i = j
            /\ \A i \in 1..Len(t.props) : NoDuplicateProps(t.props[i].type)
      [] OTHER -> TRUE

DoneRel(o) == pc = "done" /\ op = o
DoneTc(o) == pc = "done" /\ op = o
DoneSub == DoneTc("typecheckSub")

\* const f = (x: { a: number }) => x.a; f({ a: 1, b: true });
C1_Program ==
    ConstTm("f",
            FuncTm(<<NameType("x", ObjA)>>, ObjectGetTm(VarTm("x"), "a")),
            CallTm(VarTm("f"),
                   <<ObjectNewTm(<<PropTerm("a", NumberTm), PropTerm("b", TrueTm)>>)>>))

\* every argument of the call term t checks, in env, to a subtype of its parameter
ArgsAreSubtypes(t, env) ==
    LET funcTy == typecheckSub(t.func, env)
    IN  /\ funcTy.ok
        /\ funcTy.ty.tag = "Func"
        /\ Len(funcTy.ty.params) = Len(t.args)
        /\ \A i \in 1..Len(t.args) :
                /\ typecheckSub(t.args[i], env).ok
                /\ isSubtypeOf(typecheckSub(t.args[i], env).ty, funcTy.ty.params[i].type)

(* C1: in the subtyping dialect a call whose arguments all check to subtypes of
   the declared parameter types returns the function's return type; the program
   const f = (obj: {a: number}) => obj.a; f({a: 1, b: true}); checked with the
   empty environment returns Number. *)
C1_CallAcceptsSubtypeArguments ==
    /\ (DoneSub /\ term.tag = "call" /\ ArgsAreSubtypes(term, tyEnv))
            => result = Ok(typecheckSub(term.func, tyEnv).ty.retType)
    /\ (DoneSub /\ term = C1_Program /\ tyEnv = EmptyEnv) => result = Ok(NumberT)

(* C2: isEqualType is reflexive and symmetric on the types typecheck returns, and
   renaming function parameters or reordering the props of an Object type does
   not change its result. *)
C2_EqualTypeReflexiveSymmetric ==
    (DoneRel("isEqualType") /\ a \in SubReturnedTypes /\ b \in SubReturnedTypes) =>
        /\ (a = b => result = TRUE)
        /\ result = isEqualType(b, a)
        /\ result = isEqualType(Renamed(a), b)
        /\ result = isEqualType(Reordered(a), b)

(* C3: isSubtypeOf(t, t) is true for every type t that typecheck of the subtyping
   dialect returns, the Object types of object literals included. *)
C3_SubtypeReflexive ==
    (DoneRel("isSubtypeOf") /\ a \in SubReturnedTypes /\ a = b) => result = TRUE

\* the Object type x without the props that the Object type y does not name
WithoutUnnamed(x, y) ==
    ObjectT(SelectSeq(x.props, LAMBDA p : \E i \in 1..Len(y.props) : y.props[i].name = p.name))

(* C4: for Object types a and b, isSubtypeOf(a, b) is true exactly when every
   property named in b has a same-named property in a whose type is a subtype of
   b's property type; the props of a that b does not name do not change the
   result; an Object type is never a subtype of Boolean, Number or a Func type. *)
C4_ObjectSubtypeByWidth ==
    /\ (DoneRel("isSubtypeOf") /\ a.tag = "Object" /\ b.tag = "Object") =>
        /\ result = (\A i \in 1..Len(b.props) : \E j \in 1..Len(a.props) :
                        /\ a.props[j].name = b.props[i].name
                        /\ isSubtypeOf(a.props[j].type, b.props[i].type))
        /\ result = isSubtypeOf(WithoutUnnamed(a, b), b)
    /\ (DoneRel("isSubtypeOf") /\ a.tag = "Object" /\ b.tag # "Object") => result = FALSE

\* the Func type t with its own parameters given the other name
RenamedParams(t) ==
    FuncT([i \in 1..Len(t.params) |->
              NameType(IF t.params[i].name = "x" THEN "f" ELSE "x", t.params[i].type)],
          t.retType)

(* C5: for Func types a and b, isSubtypeOf(a, b) is true exactly when the
   parameter counts are equal, each parameter type of b is a subtype of a's at
   the same position and a's return type is a subtype of b's; parameter names are
   ignored; when b's only parameter is strictly narrower than a's, a is a subtype
   of b and b is not a subtype of a. *)
C5_FuncSubtypeContravariant ==
    (DoneRel("isSubtypeOf") /\ a.tag = "Func" /\ b.tag = "Func") =>
        /\ result = (/\ Len(a.params) = Len(b.params)
                     /\ \A i \in 1..Len(a.params) :
                            isSubtypeOf(b.params[i].type, a.params[i].type)
                     /\ isSubtypeOf(a.retType, b.retType))
        /\ result = isSubtypeOf(RenamedParams(a), b)
        /\ result = isSubtypeOf(a, RenamedParams(b))
        /\ (/\ Len(a.params) = 1 /\ Len(b.params) = 1
            /\ a.retType = NumberT /\ b.retType = NumberT
            /\ isSubtypeOf(b.params[1].type, a.params[1].type)
            /\ ~isSubtypeOf(a.params[1].type, b.params[1].type))
                => (result = TRUE /\ isSubtypeOf(b, a) = FALSE)

\* a call isSubtypeOf(a, b) of two Func types whose parameter types are Object
\* types of different width: the contravariant case
C5_Witness ==
    /\ DoneRel("isSubtypeOf")
    /\ a = FuncT(<<NameType("x", ObjectT(<<NameType("a", NumberT)>>))>>, NumberT)
    /\ b = FuncT(<<NameType("x", ObjectT(<<NameType("a", NumberT),
                                           NameType("b", NumberT)>>))>>, NumberT)
    /\ result = TRUE

(* C6: for Object types, isEqualType(a, b) is true exactly when a and b have the
   same number of props and every property of b has a same-named property in a
   with an equal type; for Func types, exactly when the parameter counts are
   equal, the parameter types are pairwise equal and the return types are equal;
   Boolean and Number are equal only to the same tag. *)
C6_EqualTypeByShape ==
    /\ (DoneRel("isEqualType") /\ a.tag = "Object" /\ b.tag = "Object") =>
            result = (/\ Len(a.props) = Len(b.props)
                      /\ \A i \in 1..Len(b.props) : \E j \in 1..Len(a.props) :
                            /\ a.props[j].name = b.props[i].name
                            /\ isEqualType(a.props[j].type, b.props[i].type))
    /\ (DoneRel("isEqualType") /\ a.tag = "Func" /\ b.tag = "Func") =>
            result = (/\ Len(a.params) = Len(b.params)
                      /\ \A i \in 1..Len(a.params) :
                            isEqualType(a.params[i].type, b.params[i].type)
                      /\ isEqualType(a.retType, b.retType))
    /\ (DoneRel("isEqualType") /\ (a.tag \in {"Boolean", "Number"}
                                    \/ b.tag \in {"Boolean", "Number"})) =>
            result = (a.tag = b.tag)

\* typecheck(t, env) of the dialect o, as its caller sees it
Check(o, t, env) ==
    CASE o = "typecheckArith" -> typecheckArith(t)
      [] o = "typecheckBasic" -> Outcome(typecheckBasic(t, env))
      [] o = "typecheckSub" -> typecheckSub(t, env)

TcOps == {"typecheckArith", "typecheckBasic", "typecheckSub"}
DoneAnyTc == pc = "done" /\ op \in TcOps

(* C7: no call typecheck(term, env) changes the environment it was given: when
   the call has returned or failed, env holds the bindings it held before the
   call, for every term of every dialect, the seq2/const2 form included. *)
C7_EnvironmentNeverChanged ==
    DoneAnyTc => envAfter = tyEnv

\* t with every parameter name of its Func types replaced by one name
RECURSIVE Unnamed(_)
Unnamed(t) ==
    CASE t.tag = "Func" ->
            FuncT([i \in 1..Len(t.params) |-> NameType("_", Unnamed(t.params[i].type))],
                  Unnamed(t.retType))
      [] OTHER -> t
\* equal types of the bindings dialect: the same shape, whatever the parameter names
SameType(x, y) == Unnamed(x) = Unnamed(y)

\* the arguments of the call term t that do not check, in env, to the type of
\* their parameter (params are those of the Func type of t.func)
BadArgs(o, t, env, params) ==
    {i \in 1..Len(t.args) :
        \/ ~Check(o, t.args[i], env).ok
        \/ ~SameType(Check(o, t.args[i], env).ty, params[i].type)}

(* C8: typecheck of call(f, args) fails with 'function expected' when the type
   of f is not a Func type, otherwise with 'wrong number of arguments' when the
   counts differ, otherwise with 'parameter type mismatch' at the first argument
   whose type does not match its parameter's, and only when all these checks pass
   returns the Func type's return type. *)
C8_CallChecksInOrder ==
    (DoneTc("typecheckBasic") /\ term.tag = "call"
        /\ Check(op, term.func, tyEnv).ok) =>
        LET funcTy == Check(op, term.func, tyEnv).ty
        IN  /\ funcTy.tag # "Func" => result = Err("function expected")
            /\ (funcTy.tag = "Func" /\ Len(funcTy.params) # Len(term.args))
                    => result = Err("wrong number of arguments")
            /\ (funcTy.tag = "Func" /\ Len(funcTy.params) = Len(term.args)) =>
                    LET bad == BadArgs(op, term, tyEnv, funcTy.params)
                    IN  /\ bad = {} => result = Ok(funcTy.retType)
                        /\ \A i \in bad :
                                ((\A j \in bad : i <= j) /\ Check(op, term.args[i], tyEnv).ok)
                                    => result = Err("parameter type mismatch")
                        /\ bad # {} => ~result.ok

\* a call with two arguments whose first matches and whose second does not
C8_Witness ==
    /\ DoneTc("typecheckBasic")
    /\ term.tag = "call"
    /\ Len(term.args) = 2
    /\ Check(op, term.func, tyEnv).ok
    /\ Check(op, term.func, tyEnv).ty.tag = "Func"
    /\ Len(Check(op, term.func, tyEnv).ty.params) = 2
    /\ BadArgs(op, term, tyEnv, Check(op, term.func, tyEnv).ty.params) = {2}
    /\ Check(op, term.args[2], tyEnv).ok
    /\ result = Err("parameter type mismatch")

(* C9: typecheck of add(l, r) returns Number exactly when both operands check to
   Number; the left operand is checked first, so when l checks to another type
   the failure is the left-side one whatever r is, and the right-side failure of
   this add occurs only when l checks to Number. *)
C9_AddLeftFirst ==
    (DoneAnyTc /\ term.tag = "add") =>
        LET l == Check(op, term.left, tyEnv)
            r == Check(op, term.right, tyEnv)
        IN  /\ result.ok <=> (l.ok /\ l.ty = NumberT /\ r.ok /\ r.ty = NumberT)
            /\ result.ok => result.ty = NumberT
            /\ (l.ok /\ l.ty # NumberT) => result = Err(LeftMsg)
            /\ ~l.ok => result = l
            /\ (l.ok /\ l.ty = NumberT /\ r.ok /\ r.ty # NumberT) => result = Err(RightMsg)

\* an add whose left operand checks to Boolean and whose right operand fails
C9_Witness ==
    /\ DoneTc("typecheckArith")
    /\ term.tag = "add"
    /\ typecheckArith(term.left) = Ok(BooleanT)
    /\ ~typecheckArith(term.right).ok
    /\ result = Err(LeftMsg)

(* C10: typecheck of if(cond, thn, els) fails with 'boolean expected' when cond
   checks to a type that is not Boolean (before either branch is checked),
   otherwise with 'branches must have the same type' when the types of thn and
   els are not equal, and otherwise returns the type of thn. *)
C10_IfChecksConditionFirst ==
    (DoneAnyTc /\ term.tag = "if" /\ Check(op, term.cond, tyEnv).ok) =>
        LET condTy == Check(op, term.cond, tyEnv).ty
            thnTy == Check(op, term.thn, tyEnv)
            elsTy == Check(op, term.els, tyEnv)
        IN  /\ condTy # BooleanT => result = Err("boolean expected")
            /\ (condTy = BooleanT /\ thnTy.ok /\ elsTy.ok) =>
                    IF SameType(thnTy.ty, elsTy.ty)
                    THEN result = Ok(thnTy.ty)
                    ELSE result = Err("branches must have the same type")

\* an if whose condition checks to Number and whose then-branch fails
C10_Witness ==
    /\ DoneTc("typecheckBasic")
    /\ term.tag = "if"
    /\ Check(op, term.cond, tyEnv) = Ok(NumberT)
    /\ ~Check(op, term.thn, tyEnv).ok
    /\ result = Err("boolean expected")

\* the elements of the sequence of sets ss, united
UnionOver(ss) == UNION {ss[i] : i \in 1..Len(ss)}

\* the names that occur free in the term t
RECURSIVE FreeVars(_)
RECURSIVE FreeVarsOfStmts(_, _)
\* the names free in the statements of a seq2 body from statement i on
FreeVarsOfStmts(body, i) ==
    IF i > Len(body) THEN {}
    ELSE IF body[i].tag = "const2"
         THEN FreeVars(body[i].init) \cup (FreeVarsOfStmts(body, i + 1) \ {body[i].name})
         ELSE FreeVars(body[i]) \cup FreeVarsOfStmts(body, i + 1)
FreeVars(t) ==
    CASE t.tag = "var" -> {t.name}
      [] t.tag = "if" -> FreeVars(t.cond) \cup FreeVars(t.thn) \cup FreeVars(t.els)
      [] t.tag = "add" -> FreeVars(t.left) \cup FreeVars(t.right)
      [] t.tag = "func" -> FreeVars(t.body) \ {t.params[i].name : i \in 1..Len(t.params)}
      [] t.tag = "call" ->
            FreeVars(t.func) \cup UnionOver([i \in 1..Len(t.args) |-> FreeVars(t.args[i])])
      [] t.tag = "seq" -> FreeVars(t.body) \cup FreeVars(t.rest)
      [] t.tag = "const" -> FreeVars(t.init) \cup (FreeVars(t.rest) \ {t.name})
      [] t.tag = "seq2" -> FreeVarsOfStmts(t.body, 1)
      [] t.tag = "objectNew" ->
            UnionOver([i \in 1..Len(t.props) |-> FreeVars(t.props[i].term)])
      [] t.tag = "objectGet" -> FreeVars(t.obj)
      [] OTHER -> {}

\* the environment env has a binding of its own for name
Binds(env, name) == name \in DOMAIN env /\ env[name] # Undefined

DoneEnvTc == pc = "done" /\ op \in {"typecheckBasic", "typecheckSub"}

(* C11: typecheck of var(name) returns the type the environment binds to name
   and fails with 'unknown variable: name' for every name the environment does
   not bind; every term with a free variable fails when checked with the empty
   environment. *)
C11_VarLooksUpEnvironment ==
    /\ (DoneEnvTc /\ term.tag = "var") =>
            IF Binds(tyEnv, term.name)
            THEN result = Ok(tyEnv[term.name])
            ELSE result = Err("unknown variable: " \o term.name)
    /\ (DoneEnvTc /\ tyEnv = EmptyEnv /\ FreeVars(term) # {}) => ~result.ok

DoneRec == pc = "done" /\ op = "typecheckRec"

(* C12: typecheck of const(name, init, rest) checks init in the environment that
   does not yet hold the new binding of name, so const a = a + 1 fails with
   'unknown variable: a' when a is unbound; it then returns the type of rest
   checked with name bound to init's type, which shadows an earlier binding:
   const x = 1; const x = true checks to Boolean. *)
C12_ConstBindsForRestOnly ==
    /\ (DoneRec /\ term.tag = "const") =>
            LET initTy == typecheckRec(term.init, tyEnv, term)
            IN  /\ ~initTy.ok => result = initTy
                /\ initTy.ok =>
                        result = typecheckRec(term.rest,
                                              Extend(tyEnv, term.name, initTy.ty), Nil)
                /\ term.init.tag # "func" => initTy = typecheckRec(term.init, tyEnv, Nil)
                /\ (term.init = AddTm(VarTm(term.name), NumberTm)
                        /\ ~Binds(tyEnv, term.name))
                            => result = Err("unknown variable: " \o term.name)
    /\ (DoneRec /\ term = ConstTm("x", NumberTm, ConstTm("x", TrueTm, VarTm("x"))))
            => result = Ok(BooleanT)

\* const x = 1; const x = true; x  where x was bound to Number: the last binding wins
C12_Witness ==
    /\ DoneRec
    /\ term = ConstTm("x", NumberTm, ConstTm("x", TrueTm, VarTm("x")))
    /\ tyEnv["x"] = NumberT
    /\ result = Ok(BooleanT)

\* the type the last parameter named n declares, else what env binds to n
ScopeOf(env, params) ==
    [n \in VarNames |->
        LET idx == {i \in 1..Len(params) : params[i].name = n}
        IN  IF idx = {} THEN env[n]
            ELSE params[CHOOSE i \in idx : \A j \in idx : j <= i].type]

(* C13: typecheck of func(params, body) checks body in the outer environment
   extended with every parameter (a parameter shadows an outer binding; among
   duplicate names the last wins) and returns Func(params, type of body); the
   names bound inside the function are not bound after the function term, so a
   later reference to one of them fails with 'unknown variable'. *)
C13_FuncScopesParameters ==
    /\ (DoneEnvTc /\ term.tag = "func") =>
            LET bodyTy == Check(op, term.body, ScopeOf(tyEnv, term.params))
            IN  /\ bodyTy.ok => result = Ok(FuncT(term.params, bodyTy.ty))
                /\ ~bodyTy.ok => result = bodyTy
    /\ (DoneEnvTc /\ term.tag = "const" /\ term.init.tag = "func"
            /\ Check(op, term.init, tyEnv).ok
            /\ term.rest.tag = "var" /\ term.rest.name # term.name
            /\ ~Binds(tyEnv, term.rest.name))
                => result = Err("unknown variable: " \o term.rest.name)

\* const x = (x: number) => { const f = x; return f; }; f  with nothing bound
C13_Witness ==
    /\ DoneTc("typecheckBasic")
    /\ term = ConstTm("x", FuncTm(<<NameType("x", NumberT)>>, Seq2Body), VarTm("f"))
    /\ tyEnv = EmptyEnv
    /\ result = Err("unknown variable: f")

(* C14: in the recursive-function dialect typecheck of a func term with a
   declared retType fails with 'return type mismatch' when the type of its body
   is not equal to retType, and otherwise returns Func(params, declared
   retType); without a declared retType it returns Func(params, type of body). *)
C14_DeclaredReturnType ==
    (DoneRec /\ term.tag = "func") =>
        LET bodyTy == typecheckRec(term.body, ScopeOf(tyEnv, term.params), Nil)
        IN  bodyTy.ok =>
                IF ~HasRetType(term) THEN result = Ok(FuncT(term.params, bodyTy.ty))
                ELSE IF ~SameType(term.retType, bodyTy.ty)
                    THEN result = Err("return type mismatch")
                ELSE result = Ok(FuncT(term.params, term.retType))

\* const f = (x: number): number => f(x); f
C15_Program ==
    ConstTm("f", FuncRetTm(<<NameType("x", NumberT)>>, NumberT,
                           CallTm(VarTm("f"), <<VarTm("x")>>)),
            VarTm("f"))

\* the outcome of a func term whose body checks to bodyTy
FuncOutcome(f, bodyTy) ==
    IF ~bodyTy.ok THEN bodyTy
    ELSE IF HasRetType(f) /\ ~SameType(f.retType, bodyTy.ty)
        THEN Err("return type mismatch")
    ELSE Ok(FuncT(f.params, bodyTy.ty))

(* C15: in the recursive-function dialect the body of a func term with a
   declared retType that is directly the init of const(name, init, rest) is
   checked with name bound to Func(params, retType), so const f = (x: number):
   number => f(x) checks to Func([x: Number], Number); the binding is not made
   when the func has no declared retType, when the func is nested inside the
   init, or when the func is not under a const. *)
C15_ConstNamePreBound ==
    /\ (DoneRec /\ term.tag = "const" /\ term.init.tag = "func") =>
            LET f == term.init
                params == ScopeOf(tyEnv, f.params)
                scope == IF HasRetType(f)
                         THEN Extend(params, term.name, FuncT(f.params, f.retType))
                         ELSE params
                initTy == FuncOutcome(f, typecheckRec(f.body, scope, Nil))
            IN  result = IF ~initTy.ok THEN initTy
                         ELSE typecheckRec(term.rest,
                                           Extend(tyEnv, term.name, initTy.ty), Nil)
    /\ (DoneRec /\ term = C15_Program /\ tyEnv = EmptyEnv)
            => result = Ok(FuncT(<<NameType("x", NumberT)>>, NumberT))
    /\ (DoneRec /\ term.tag = "const" /\ term.init.tag # "func") =>
            LET initTy == typecheckRec(term.init, tyEnv, Nil)
            IN  ~initTy.ok => result = initTy
    /\ (DoneRec /\ term.tag = "func") =>
            result = FuncOutcome(term, typecheckRec(term.body,
                                                   ScopeOf(tyEnv, term.params), Nil))

\* the program of the claim checked with the empty environment
C15_Witness ==
    /\ DoneRec
    /\ term = C15_Program
    /\ tyEnv = EmptyEnv
    /\ result = Ok(FuncT(<<NameType("x", NumberT)>>, NumberT))

(* C16: typecheck of recFunc(funcName, params, retType, body, rest) checks body
   in the outer environment extended with the parameters and with funcName
   bound to Func(params, retType), fails with 'return type mismatch' when the
   body's type is not equal to retType, and then returns the type of rest
   checked in the outer environment extended with funcName only. *)
C16_RecFuncBindsNameInRest ==
    (DoneRec /\ term.tag = "recFunc") =>
        LET selfTy == FuncT(term.params, term.retType)
            scope == Extend(ScopeOf(tyEnv, term.params), term.funcName, selfTy)
            bodyTy == typecheckRec(term.body, scope, Nil)
        IN  /\ ~bodyTy.ok => result = bodyTy
            /\ (bodyTy.ok /\ ~SameType(term.retType, bodyTy.ty))
                    => result = Err("return type mismatch")
            /\ (bodyTy.ok /\ SameType(term.retType, bodyTy.ty))
                    => result = typecheckRec(term.rest,
                                             Extend(tyEnv, term.funcName, selfTy), Nil)

\* function f(x: number): number { return f(x); } x  with nothing bound: the
\* parameter x is not bound in rest
C16_Witness ==
    /\ DoneRec
    /\ term = RecFuncTm("f", <<NameType("x", NumberT)>>, NumberT,
                        CallTm(VarTm("f"), <<VarTm("x")>>), VarTm("x"))
    /\ tyEnv = EmptyEnv
    /\ result = Err("unknown variable: x")

(* C17: typecheck of objectGet(obj, propName) fails with 'object expected' when
   obj does not check to an Object type, with 'unknown property: propName' when
   that Object type has no property of that name, and otherwise returns the
   type of a property named propName; const obj = { a: 1, b: true }; obj.a
   checks to Number and obj.c fails. *)
C17_ObjectGetFindsProperty ==
    /\ (DoneSub /\ term.tag = "objectGet" /\ typecheckSub(term.obj, tyEnv).ok) =>
            LET objTy == typecheckSub(term.obj, tyEnv).ty
            IN  IF objTy.tag # "Object" THEN result = Err("object expected")
                ELSE IF \A i \in 1..Len(objTy.props) : objTy.props[i].name # term.propName
                    THEN result = Err("unknown property: " \o term.propName)
                ELSE \E i \in 1..Len(objTy.props) :
                        /\ objTy.props[i].name = term.propName
                        /\ result = Ok(objTy.props[i].type)
    /\ (DoneSub /\ term.tag = "const" /\ tyEnv = EmptyEnv
            /\ term.init = ObjectNewTm(<<PropTerm("a", NumberTm), PropTerm("b", TrueTm)>>)
            /\ term.rest.tag = "objectGet" /\ term.rest.obj = VarTm(term.name)) =>
                CASE term.rest.propName = "a" -> result = Ok(NumberT)
                  [] term.rest.propName = "b" -> result = Ok(BooleanT)
                  [] OTHER -> result = Err("unknown property: " \o term.rest.propName)

\* const x = { a: 1, b: true }; x.c
C17_Witness ==
    /\ DoneSub
    /\ term = ConstTm("x", ObjectNewTm(<<PropTerm("a", NumberTm), PropTerm("b", TrueTm)>>),
                      ObjectGetTm(VarTm("x"), "c"))
    /\ result = Err("unknown property: c")

(* C18: typecheck of objectNew(props) checks each property's term in declaration
   order in the unchanged environment and returns an Object type whose props
   have the length, names and order of the literal, each with the type of its
   term; a failure in a property term fails the whole literal. *)
C18_ObjectNewMirrorsLiteral ==
    (DoneSub /\ term.tag = "objectNew") =>
        LET rs == [i \in 1..Len(term.props) |-> typecheckSub(term.props[i].term, tyEnv)]
            bad == {i \in 1..Len(term.props) : ~rs[i].ok}
        IN  /\ bad = {} =>
                /\ result.ok
                /\ result.ty.tag = "Object"
                /\ Len(result.ty.props) = Len(term.props)
                /\ \A i \in 1..Len(term.props) :
                        result.ty.props[i] = NameType(term.props[i].name, rs[i].ty)
            /\ \A i \in bad : (\A j \in bad : i <= j) => result = rs[i]

\* { x: 1, a: x } with nothing bound: the term of a does not see the property x
C18_Witness ==
    /\ DoneSub
    /\ term = ObjectNewTm(<<PropTerm("x", NumberTm), PropTerm("a", VarTm("x"))>>)
    /\ tyEnv = EmptyEnv
    /\ result = Err("unknown variable: x")

(* C19: every Object type that typecheck returns, or that occurs inside a type
   it returns, has a props list with no duplicate property names. *)
C19_NoDuplicatePropNames ==
    (DoneSub /\ result.ok) => NoDuplicateProps(result.ty)

(* C20: typecheck of seq(body, rest) checks body first and then rest in the same
   environment and returns the type of rest whatever the type of body is; a
   failure in body is the result, and a failure in rest fails the sequence. *)
C20_SeqReturnsRest ==
    (DoneEnvTc /\ term.tag = "seq") =>
        LET bodyTy == Check(op, term.body, tyEnv)
            restTy == Check(op, term.rest, tyEnv)
        IN  /\ ~bodyTy.ok => result = bodyTy
            /\ bodyTy.ok => result = restTy

\* the outcomes of the immediate subterms of t in the order typecheck of the
\* subtyping dialect reaches them, each in the environment it is checked in
SubtermOutcomes(t, env) ==
    CASE t.tag = "add" -> <<typecheckSub(t.left, env), typecheckSub(t.right, env)>>
      [] t.tag = "func" -> <<typecheckSub(t.body, ScopeOf(env, t.params))>>
      [] t.tag = "call" ->
            <<typecheckSub(t.func, env)>>
                \o [i \in 1..Len(t.args) |-> typecheckSub(t.args[i], env)]
      [] t.tag = "seq" -> <<typecheckSub(t.body, env), typecheckSub(t.rest, env)>>
      [] t.tag = "const" ->
            LET initTy == typecheckSub(t.init, env)
            IN  IF ~initTy.ok THEN <<initTy>>
                ELSE <<initTy, typecheckSub(t.rest, Extend(env, t.name, initTy.ty))>>
      [] t.tag = "objectNew" ->
            [i \in 1..Len(t.props) |-> typecheckSub(t.props[i].term, env)]
      [] t.tag = "objectGet" -> <<typecheckSub(t.obj, env)>>
      [] OTHER -> <<>>

\* the messages the case of t throws itself
OwnErrors(t) ==
    CASE t.tag = "add" -> {LeftMsg, RightMsg}
      [] t.tag = "var" -> {"unknown variable: " \o t.name}
      [] t.tag = "call" ->
            {"function expected", "wrong number of arguments", "parameter type mismatch"}
      [] t.tag = "objectGet" -> {"object expected", "unknown property: " \o t.propName}
      [] OTHER -> {}

(* C21: typecheck(t, env) returns a type only if the check of every subterm of
   t, in the environment that subterm is checked in, returns a type; when a
   subterm fails the whole check fails, with the error of the first failing
   step in evaluation order. *)
C21_FailurePropagates ==
    DoneSub =>
        LET rs == SubtermOutcomes(term, tyEnv)
            bad == {i \in 1..Len(rs) : ~rs[i].ok}
        IN  /\ result.ok => bad = {}
            /\ 1 \in bad => result = rs[1]
            /\ (bad # {} /\ term.tag \in {"seq", "const", "objectNew", "func", "objectGet"})
                    => \E i \in bad : (\A j \in bad : i <= j) /\ result = rs[i]
            /\ ~result.ok =>
                    \/ \E i \in bad : (\A j \in 1..(i - 1) : rs[j].ok) /\ result = rs[i]
                    \/ result.err \in OwnErrors(term)

\* { a: x, b: true + 1 } with nothing bound: the error of the first property
C21_Witness ==
    /\ DoneSub
    /\ term = ObjectNewTm(<<PropTerm("a", VarTm("x")),
                            PropTerm("b", AddTm(TrueTm, NumberTm))>>)
    /\ tyEnv = EmptyEnv
    /\ result = Err("unknown variable: x")

----------------------------------------------------------------------------
(* The command line program: bin/tiny-ts-typechecker.ts and part_008 *)

\* typecheck of src/obj.ts, the checker the mode obj runs: its text is that of
\* typecheck of src/basic.ts, with no case for objectNew and objectGet
typecheckObj(t, env) == typecheckBasic(t, env)

\* values.mode: the value of --mode, "arith" when the option is not given
ModeOf(args) == IF args.mode = <<>> THEN "arith" ELSE args.mode[1]

\* the call the case of the switch makes, with the parsed source text
RunChecker(mode, content) ==
    CASE mode = "arith" -> typecheckArith(content)
      [] mode = "basic" -> Outcome(typecheckBasic(content, EmptyEnv))
      [] mode = "obj" -> Outcome(typecheckObj(content, EmptyEnv))
      [] mode = "rec-func" -> typecheckRec(content, EmptyEnv, Nil)

\* how the process ends: the checker it ran, what it printed, its exit status
Exited(checker, stdout, stderr, status) ==
    [checker |-> checker, stdout |-> stdout, stderr |-> stderr, status |-> status]

\* the program with the cases of its switch: usage and exit 1 without a
\* positional, console.dir of the type, exit 1 on a throw or an unknown mode
CliMain(cases, args) ==
    IF Len(args.positionals) = 0 THEN Exited("none", Nil, "Usage:", 1)
    ELSE IF ModeOf(args) \in cases
    THEN LET r == RunChecker(ModeOf(args), args.positionals[1])
         IN  IF r.ok THEN Exited(ModeOf(args), r.ty, "", 0)
             ELSE Exited(ModeOf(args), Nil, r.err, 1)
    ELSE Exited("none", Nil, "Unknown mode: " \o ModeOf(args), 1)

\* the cases of the switch of bin/tiny-ts-typechecker.ts and of part_008
BinCases == {"arith", "basic", "obj"}
Part008Cases == {"arith", "basic", "obj", "rec-func"}

\* the --mode values given: the five documented ones and another one
ModeValues == {"arith", "basic", "obj", "rec-func", "sub", "full"}

\* const x = { a: 1, b: true }; x.p
ObjPrograms ==
    {ConstTm("x", ObjectNewTm(<<PropTerm("a", NumberTm), PropTerm("b", TrueTm)>>),
             ObjectGetTm(VarTm("x"), p)) : p \in PropNames \cup {"c"}}
\* what the parser of the mode returns for the source texts given
CliPrograms(mode) ==
    CASE mode = "arith" -> ArithFlat
      [] mode = "basic" -> BasicExprs
      [] mode = "obj" -> Atoms \cup SubObjLits \cup ObjPrograms
      [] mode = "rec-func" -> RecExprs \cup RecNested
      [] OTHER -> {NumberTm} \cup ObjPrograms

CliOps == {"cliBin", "cliPart008"}

InitCli ==
    /\ pc = "ready"
    /\ op \in CliOps
    /\ \E m \in SeqsUpTo(ModeValues, 1) :
            \/ argv = [positionals |-> <<>>, mode |-> m]
            \/ \E c \in CliPrograms(ModeOf([mode |-> m])) :
                    argv = [positionals |-> <<c>>, mode |-> m]
    /\ proc = Nil
    /\ a = Nil
    /\ b = Nil
    /\ term = Nil
    /\ tyEnv = Nil
    /\ envAfter = Nil
    /\ result = Nil

\* a run of bin/tiny-ts-typechecker.ts
CallCliBin ==
    /\ pc = "ready"
    /\ op = "cliBin"
    /\ proc' = CliMain(BinCases, argv)
    /\ pc' = "done"
    /\ UNCHANGED <<op, argv, a, b, term, tyEnv, envAfter, result>>

\* a run of the program of part_008
CallCliPart008 ==
    /\ pc = "ready"
    /\ op = "cliPart008"
    /\ proc' = CliMain(Part008Cases, argv)
    /\ pc' = "done"
    /\ UNCHANGED <<op, argv, a, b, term, tyEnv, envAfter, result>>

NextCli == CallCliBin \/ CallCliPart008

SpecCli == InitCli /\ [][NextCli]_vars

DoneCli == pc = "done" /\ op \in CliOps

(* C22: the checker the CLI mode obj selects accepts object literals and
   property access: it returns an Object type for objectNew and the property's
   type for objectGet, so const obj = { a: 1, b: true }; obj.a checks to Number
   in that mode. *)
C22_ObjModeChecksObjects ==
    (DoneCli /\ Len(argv.positionals) = 1 /\ ModeOf(argv) = "obj") =>
        LET content == argv.positionals[1]
        IN  /\ (content.tag = "objectNew" /\ typecheckSub(content, EmptyEnv).ok) =>
                    /\ proc.status = 0
                    /\ proc.stdout = typecheckSub(content, EmptyEnv).ty
            /\ content = ConstTm("x", ObjectNewTm(<<PropTerm("a", NumberTm),
                                                    PropTerm("b", TrueTm)>>),
                                 ObjectGetTm(VarTm("x"), "a"))
                    => (proc.status = 0 /\ proc.stdout = NumberT)

ModesOfSpec == {"arith", "basic", "obj", "rec-func", "sub"}

(* C23: the CLI accepts each of the five modes arith, basic, obj, rec-func and
   sub and runs that dialect's checker on the source text, printing the type;
   with no positional argument, or with a --mode value outside these five, it
   prints a message and exits with a non-zero status without running a
   checker. *)
C23_CliRunsFiveModes ==
    DoneCli =>
        /\ Len(argv.positionals) = 0 =>
                (proc.status # 0 /\ proc.checker = "none" /\ proc.stderr # "")
        /\ (Len(argv.positionals) = 1 /\ ModeOf(argv) \notin ModesOfSpec) =>
                (proc.status # 0 /\ proc.checker = "none" /\ proc.stderr # "")
        /\ (Len(argv.positionals) = 1 /\ ModeOf(argv) \in ModesOfSpec) =>
                /\ proc.checker = ModeOf(argv)
                /\ proc.status = 0 => proc.stdout # Nil

\* the tags of the term t and of the terms in it
RECURSIVE TermTags(_)
TermTags(t) ==
    {t.tag} \cup
    CASE t.tag = "if" -> TermTags(t.cond) \cup TermTags(t.thn) \cup TermTags(t.els)
      [] t.tag = "add" -> TermTags(t.left) \cup TermTags(t.right)
      [] t.tag = "func" -> TermTags(t.body)
      [] t.tag = "call" ->
            TermTags(t.func) \cup UnionOver([i \in 1..Len(t.args) |-> TermTags(t.args[i])])
      [] t.tag = "seq" -> TermTags(t.body) \cup TermTags(t.rest)
      [] t.tag = "const" -> TermTags(t.init) \cup TermTags(t.rest)
      [] t.tag = "seq2" -> UnionOver([i \in 1..Len(t.body) |-> TermTags(t.body[i])])
      [] t.tag = "const2" -> TermTags(t.init)
      [] t.tag = "objectNew" ->
            UnionOver([i \in 1..Len(t.props) |-> TermTags(t.props[i].term)])
      [] t.tag = "objectGet" -> TermTags(t.obj)
      [] OTHER -> {}

\* the tags of the Term type of src/arith.ts and of src/basic.ts
ArithVocabulary == {"true", "false", "if", "number", "add"}
BasicVocabulary ==
    ArithVocabulary \cup {"var", "func", "call", "seq", "const", "seq2", "const2"}

(* C24: each later dialect agrees with the dialect it depends on: for every term
   of the earlier dialect's vocabulary, checked with the empty environment, the
   later typecheck returns the same type or fails with the same message
   (arithmetic -> bindings -> objects -> subtyping, bindings -> recursive
   functions; the recursive dialect is compared on the terms it declares). *)
C24_LaterDialectAgrees ==
    /\ (DoneTc("typecheckArith") /\ TermTags(term) \subseteq ArithVocabulary) =>
            Outcome(typecheckBasic(term, EmptyEnv)) = result
    /\ (DoneTc("typecheckBasic") /\ tyEnv = EmptyEnv
            /\ TermTags(term) \subseteq BasicVocabulary) =>
            /\ Outcome(typecheckObj(term, EmptyEnv)) = result
            /\ typecheckSub(term, EmptyEnv) = Outcome(typecheckObj(term, EmptyEnv))
            /\ TermTags(term) \cap {"seq2", "const2"} = {} =>
                    typecheckRec(term, EmptyEnv, Nil) = result

\* the nested seq/const form of the statements of a flat list from statement i
\* on: a const that ends the list has the reference to its name as rest
RECURSIVE Nested(_)
RECURSIVE NestedFrom(_, _)
NestedFrom(body, i) ==
    IF body[i].tag = "const2"
    THEN ConstTm(body[i].name, Nested(body[i].init),
                 IF i = Len(body) THEN VarTm(body[i].name) ELSE NestedFrom(body, i + 1))
    ELSE IF i = Len(body) THEN Nested(body[i])
         ELSE SeqTm(Nested(body[i]), NestedFrom(body, i + 1))
\* the term parseBasic gives for the source text parseBasic2 gives t for
Nested(t) ==
    CASE t.tag = "seq2" -> NestedFrom(t.body, 1)
      [] t.tag = "func" -> [t EXCEPT !.body = Nested(t.body)]
      [] t.tag = "call" ->
            CallTm(Nested(t.func), [i \in 1..Len(t.args) |-> Nested(t.args[i])])
      [] t.tag = "add" -> AddTm(Nested(t.left), Nested(t.right))
      [] t.tag = "if" -> IfTm(Nested(t.cond), Nested(t.thn), Nested(t.els))
      [] OTHER -> t

\* the environment the statements before the last one leave for it
EnvBeforeLast(body) ==
    IF Len(body) = 1 THEN EmptyEnv
    ELSE BasicSeq2Loop(SubSeq(body, 1, Len(body) - 1), 1, EmptyEnv, Nil).env

DoneSeq2 ==
    /\ DoneTc("typecheckBasic")
    /\ tyEnv = EmptyEnv
    /\ term.tag = "seq2"
    /\ term.body # <<>>

(* C25: in the bindings dialect a program given as a flat statement list
   seq2([...]) with const2 bindings checks to the same type, or fails with the
   same message, as the same program given as nested seq/const terms, both
   checked with a fresh empty environment; a const2 as the last statement gives
   the type of its init. *)
C25_FlatListAgreesWithNested ==
    DoneSeq2 =>
        LET last == term.body[Len(term.body)]
        IN  /\ result = Outcome(typecheckBasic(Nested(term), EmptyEnv))
            /\ (last.tag = "const2" /\ result.ok) =>
                    result = Outcome(typecheckBasic(last.init, EnvBeforeLast(term.body)))

\* const x = ...; const f = x: the second statement reads the first's binding
C25_Witness ==
    /\ DoneSeq2
    /\ Len(term.body) = 2
    /\ term.body[1].tag = "const2"
    /\ term.body[2] = Const2Tm("f", VarTm(term.body[1].name))
    /\ result.ok

(* C26: typecheck2 of the arithmetic dialect does not require a conditional's
   condition to be Boolean: a conditional whose condition and branches are
   accepted and whose branches have the same type checks to the type of its
   then-branch; and on every term typecheck accepts typecheck2 returns the same
   type. *)
C26_Typecheck2DropsConditionType ==
    DoneTc("typecheck2") =>
        /\ typecheckArith(term).ok => result = typecheckArith(term)
        /\ (/\ term.tag = "if"
            /\ typecheck2(term.cond).ok
            /\ typecheck2(term.thn).ok
            /\ typecheck2(term.els).ok
            /\ typecheck2(term.thn).ty.tag = typecheck2(term.els).ty.tag)
                => result = typecheck2(term.thn)

DoneAnyRel == pc = "done" /\ op \in RelOps

(* C27: for types a and b whose Object types name no property twice,
   isEqualType(a, b) is true exactly when isSubtypeOf(a, b) and isSubtypeOf(b, a)
   are both true. *)
C27_EqualIsMutualSubtype ==
    (DoneAnyRel /\ NoDuplicateProps(a) /\ NoDuplicateProps(b)) =>
        /\ op = "isEqualType" => result = (isSubtypeOf(a, b) /\ isSubtypeOf(b, a))
        /\ op = "isSubtypeOf" => (result /\ isSubtypeOf(b, a)) = isEqualType(a, b)

\* two Object types with the same props in another order: equal, and each a
\* subtype of the other
C27_Witness ==
    /\ DoneRel("isEqualType")
    /\ a.tag = "Object"
    /\ Len(a.props) = 2
    /\ NoDuplicateProps(a)
    /\ b = Reordered(a)
    /\ a # b
    /\ result = TRUE

(* C28: isSubtypeOf is transitive: isSubtypeOf(a, b) and isSubtypeOf(b, c) imply
   isSubtypeOf(a, c), through the parameters of Func types and the props of
   Object types too. *)
C28_SubtypeTransitive ==
    (DoneRel("isSubtypeOf") /\ result = TRUE) =>
        \A c \in Types : isSubtypeOf(b, c) => isSubtypeOf(a, c)

\* a chain through a parameter: (x: {}) => number below (x: { a }) => number,
\* which is below (x: { a, b }) => number
C28_Witness ==
    /\ DoneRel("isSubtypeOf")
    /\ a = FuncT(<<NameType("x", ObjectT(<<>>))>>, NumberT)
    /\ b = FuncT(<<NameType("x", ObjA)>>, NumberT)
    /\ \E c \in Types :
            /\ c = FuncT(<<NameType("x", ObjectT(<<NameType("a", NumberT),
                                                   NameType("b", NumberT)>>))>>, NumberT)
            /\ isSubtypeOf(b, c)
    /\ result = TRUE

\* a parameter of params has the name n
ParamNamed(params, n) == \E i \in 1..Len(params) : params[i].name = n

\* the scope in which the own name n of a function has the type selfTy whatever
\* the parameters bind
SelfScope(env, params, n, selfTy) ==
    [m \in VarNames |-> IF m = n THEN selfTy ELSE ScopeOf(env, params)[m]]

(* C29: in the recursive-function dialect the own name of a self-referential
   function takes precedence over a parameter of the same name: when a parameter
   is named like the funcName of a recFunc, or like the const that a func with a
   declared retType initialises, a reference to the name in the body has the
   type Func(params, retType) and not the declared type of the parameter. *)
C29_OwnNameShadowsParameter ==
    /\ (DoneRec /\ term.tag = "recFunc" /\ ParamNamed(term.params, term.funcName)) =>
            LET selfTy == FuncT(term.params, term.retType)
                scope == SelfScope(tyEnv, term.params, term.funcName, selfTy)
                bodyTy == typecheckRec(term.body, scope, Nil)
            IN  /\ typecheckRec(VarTm(term.funcName), scope, Nil) = Ok(selfTy)
                /\ ~bodyTy.ok => result = bodyTy
                /\ (bodyTy.ok /\ ~SameType(term.retType, bodyTy.ty)) =>
                        result = Err("return type mismatch")
                /\ term.body = VarTm(term.funcName) =>
                        result = Err("return type mismatch")
    /\ (DoneRec /\ term.tag = "const" /\ term.init.tag = "func"
            /\ HasRetType(term.init) /\ ParamNamed(term.init.params, term.name)) =>
            LET f == term.init
                selfTy == FuncT(f.params, f.retType)
                scope == SelfScope(tyEnv, f.params, term.name, selfTy)
                bodyTy == typecheckRec(f.body, scope, Nil)
            IN  /\ ~bodyTy.ok => result = bodyTy
                /\ (bodyTy.ok /\ ~SameType(f.retType, bodyTy.ty)) =>
                        result = Err("return type mismatch")
                /\ f.body = VarTm(term.name) => result = Err("return type mismatch")

\* const x = (x: number): number => x: the body's x is the function, so the
\* declared return type does not match
C29_Witness ==
    /\ DoneRec
    /\ term.tag = "const"
    /\ term.name = "x"
    /\ term.init = FuncRetTm(<<NameType("x", NumberT)>>, NumberT, VarTm("x"))
    /\ result = Err("return type mismatch")

\* the comparison the call case of the dialect o makes of an argument's type
\* with the parameter's
Matches(o, argTy, paramTy) ==
    IF o = "typecheckSub" THEN isEqualType(argTy, paramTy) ELSE typeEq(argTy, paramTy)

DoneCall == DoneEnvTc /\ term.tag = "call"

(* C30: in call(f, args) the counts are compared before any argument is checked:
   when they differ the call fails with 'wrong number of arguments' even if an
   argument is itself ill-typed; an error inside f, the body of a function
   literal included, is reported before the arity error; when the counts match,
   an error inside argument i is reported before a type mismatch of any argument
   after i. *)
C30_ArityBeforeArguments ==
    DoneCall =>
        LET funcTy == Check(op, term.func, tyEnv)
        IN  /\ ~funcTy.ok => result = funcTy
            /\ (funcTy.ok /\ funcTy.ty.tag = "Func"
                    /\ Len(funcTy.ty.params) # Len(term.args))
                    => result = Err("wrong number of arguments")
            /\ (funcTy.ok /\ funcTy.ty.tag = "Func"
                    /\ Len(funcTy.ty.params) = Len(term.args)) =>
                    \A i \in 1..Len(term.args) :
                        (/\ ~Check(op, term.args[i], tyEnv).ok
                         /\ \A j \in 1..(i - 1) :
                                /\ Check(op, term.args[j], tyEnv).ok
                                /\ Matches(op, Check(op, term.args[j], tyEnv).ty,
                                           funcTy.ty.params[j].type))
                            => result = Check(op, term.args[i], tyEnv)

\* a call with one argument too few whose argument does not check
C30_Witness ==
    /\ DoneCall
    /\ Check(op, term.func, tyEnv).ok
    /\ Check(op, term.func, tyEnv).ty.tag = "Func"
    /\ Len(Check(op, term.func, tyEnv).ty.params) = 2
    /\ Len(term.args) = 1
    /\ ~Check(op, term.args[1], tyEnv).ok
    /\ result = Err("wrong number of arguments")

====
